---- MODULE Spec2Model ----
(***************************************************************************)
(* Model of the gcop-rs Python wrapper (src/python/src/gcop_rs/__init__.py)*)
(* : platform resolution, cache check, download, chmod, version marker,    *)
(* child dispatch.  Text is modelled as sequences of one-character strings *)
(* so that lower(), strip() and f-string interpolation are computed.       *)
(***************************************************************************)
EXTENDS Integers, Sequences, FiniteSets, TLC

(***************************************************************************)
(* Text helpers: str.lower(), str.strip(), literals                        *)
(***************************************************************************)
ASCII_UPPER ==
  <<"A","B","C","D","E","F","G","H","I","J","K","L","M",
    "N","O","P","Q","R","S","T","U","V","W","X","Y","Z">>

ASCII_LOWER ==
  <<"a","b","c","d","e","f","g","h","i","j","k","l","m",
    "n","o","p","q","r","s","t","u","v","w","x","y","z">>

lower_char(c) ==
  IF \E i \in DOMAIN ASCII_UPPER : ASCII_UPPER[i] = c
    THEN ASCII_LOWER[CHOOSE i \in DOMAIN ASCII_UPPER : ASCII_UPPER[i] = c]
    ELSE c

\* str.lower() as used on platform.system() and platform.machine()
lower(s) == [i \in 1..Len(s) |-> lower_char(s[i])]

WHITESPACE == {" ", "\t", "\n", "\r", "\f"}

RECURSIVE lstrip(_)
lstrip(s) ==
  IF s # <<>> /\ Head(s) \in WHITESPACE THEN lstrip(Tail(s)) ELSE s

RECURSIVE rstrip(_)
rstrip(s) ==
  IF s # <<>> /\ s[Len(s)] \in WHITESPACE
    THEN rstrip(SubSeq(s, 1, Len(s) - 1))
    ELSE s

\* str.strip() as used on the text read from the version file
strip(s) == rstrip(lstrip(s))

\* String literals of the source
S_x86_64   == <<"x","8","6","_","6","4">>
S_amd64    == <<"a","m","d","6","4">>
S_arm64    == <<"a","r","m","6","4">>
S_aarch64  == <<"a","a","r","c","h","6","4">>
S_darwin   == <<"d","a","r","w","i","n">>
S_linux    == <<"l","i","n","u","x">>
S_windows  == <<"w","i","n","d","o","w","s">>
S_Windows  == <<"W","i","n","d","o","w","s">>
S_Darwin   == <<"D","a","r","w","i","n">>
S_macos_   == <<"m","a","c","o","s","-">>
S_linux_   == <<"l","i","n","u","x","-">>
S_windows_aarch64_exe ==
  <<"w","i","n","d","o","w","s","-","a","a","r","c","h","6","4",".","e","x","e">>
S_windows_amd64_exe ==
  <<"w","i","n","d","o","w","s","-","a","m","d","6","4",".","e","x","e">>
S_gcop_rs     == <<"g","c","o","p","-","r","s">>
S_gcop_rs_exe == <<"g","c","o","p","-","r","s",".","e","x","e">>

\* __version__ = "0.4.2"
VERSION_0_4_2 == <<"0",".","4",".","2">>

\* GITHUB_RELEASE_URL
GITHUB_RELEASE_URL ==
  <<"h","t","t","p","s",":","/","/","g","i","t","h","u","b",".","c","o","m",
    "/","A","p","t","S","-","1","5","4","7","/","g","c","o","p","-","r","s",
    "/","r","e","l","e","a","s","e","s","/","d","o","w","n","l","o","a","d">>

(***************************************************************************)
(* get_binary_name                                                         *)
(***************************************************************************)
\* The result of a call: a return value or a raised exception.
Returned(v) == [ok |-> TRUE, value |-> v]
Raised(kind, what, arg) == [ok |-> FALSE, kind |-> kind, what |-> what, arg |-> arg]

\* Faulty variant: unknown machines and systems fall back to amd64 / linux.
get_binary_name_mutant_default(system_raw, machine_raw) ==
  LET system  == lower(system_raw)
      machine == lower(machine_raw)
      arch == IF machine \in {S_arm64, S_aarch64} THEN S_arm64 ELSE S_amd64
  IN  IF system = S_darwin
        THEN Returned([platform_str |-> S_macos_ \o arch, binary_name |-> S_gcop_rs])
      ELSE IF system = S_windows
        THEN Returned([platform_str |->
                         IF arch = S_arm64 THEN S_windows_aarch64_exe
                                           ELSE S_windows_amd64_exe,
                       binary_name |-> S_gcop_rs_exe])
      ELSE Returned([platform_str |-> S_linux_ \o arch, binary_name |-> S_gcop_rs])

get_binary_name(system_raw, machine_raw) ==
  LET system  == lower(system_raw)
      machine == lower(machine_raw)
  IN  IF machine \notin {S_x86_64, S_amd64, S_arm64, S_aarch64}
        THEN Raised("RuntimeError", "Unsupported architecture", machine)
      ELSE
        LET arch == IF machine \in {S_x86_64, S_amd64} THEN S_amd64 ELSE S_arm64
        IN  IF system = S_darwin
              THEN Returned([platform_str |-> S_macos_ \o arch,
                             binary_name  |-> S_gcop_rs])
            ELSE IF system = S_linux
              THEN Returned([platform_str |-> S_linux_ \o arch,
                             binary_name  |-> S_gcop_rs])
            ELSE IF system = S_windows
              THEN Returned([platform_str |->
                               IF arch = S_arm64 THEN S_windows_aarch64_exe
                                                 ELSE S_windows_amd64_exe,
                             binary_name  |-> S_gcop_rs_exe])
            ELSE Raised("RuntimeError", "Unsupported operating system", system)

(***************************************************************************)
(* Host environment and get_binary_path                                    *)
(***************************************************************************)
\* An optional value: <<>> is None / unset / absent, <<v>> is v.
None == <<>>
Some(v) == <<v>>

S_Linux   == <<"L","i","n","u","x">>
S_FreeBSD == <<"F","r","e","e","B","S","D">>
S_AMD64   == <<"A","M","D","6","4">>
S_riscv64 == <<"r","i","s","c","v","6","4">>

\* Paths are sequences of segments.
get_binary_path(h) ==
  LET cache_dir ==
        IF h.system = S_Windows
          THEN IF h.LOCALAPPDATA # None THEN h.LOCALAPPDATA[1]
                                        ELSE h.home \o <<"AppData", "Local">>
        ELSE IF h.system = S_Darwin
          THEN h.home \o <<"Library", "Caches">>
        ELSE IF h.XDG_CACHE_HOME # None THEN h.XDG_CACHE_HOME[1]
                                        ELSE h.home \o <<".cache">>
  IN  cache_dir \o <<"gcop-rs", "bin">>

\* The hosts the wrapper is run on: platform.system(), platform.machine(),
\* Path.home() and the two environment variables the source consults.
Host(sys, mach, home, lad, xdg) ==
  [system |-> sys, machine |-> mach, home |-> home,
   LOCALAPPDATA |-> lad, XDG_CACHE_HOME |-> xdg]

Hosts ==
  { Host(S_Linux,   S_x86_64,  <<"home", "u">>, None, None),
    Host(S_Linux,   S_aarch64, <<"home", "u">>, None, Some(<<"var", "cache">>)),
    Host(S_Darwin,  S_arm64,   <<"Users", "u">>, None, None),
    Host(S_Windows, S_AMD64,   <<"C:", "Users", "u">>,
         Some(<<"C:", "Users", "u", "AppData", "Local">>), None),
    Host(S_Linux,   S_riscv64, <<"home", "u">>, None, None),
    Host(S_FreeBSD, S_amd64,   <<"home", "u">>, None, None) }

Supported(h) == get_binary_name(h.system, h.machine).ok

(***************************************************************************)
(* Cache directory contents                                                *)
(***************************************************************************)
VERSION_0_4_1 == <<"0",".","4",".","1">>

\* Values __version__ takes across releases of the wrapper that share one
\* per-user cache directory; the source at hand carries VERSION_0_4_2.
Versions == {VERSION_0_4_1, VERSION_0_4_2}

XBITS == {"S_IXUSR", "S_IXGRP", "S_IXOTH"}

\* Mode of a file newly created by open(filename, 'wb') under umask 022.
NEW_FILE_MODE == {"S_IRUSR", "S_IWUSR", "S_IRGRP", "S_IROTH"}

\* The file at binary_path: absent, or the asset of release `ver`, either
\* whole (complete) or truncated / partly written.
NoBinary == [exists |-> FALSE, ver |-> <<>>, complete |-> FALSE, mode |-> {}]
BinaryFile(v, c, m) == [exists |-> TRUE, ver |-> v, complete |-> c, mode |-> m]

\* The file bin/version: absent, or its text.
NoMarker == [exists |-> FALSE, text |-> <<>>]
MarkerFile(t) == [exists |-> TRUE, text |-> t]

(***************************************************************************)
(* State                                                                   *)
(***************************************************************************)
Procs == {1, 2}

VARIABLES
  host,        \* the host environment (fixed during a run)
  dirExists,   \* bin_dir exists
  binary,      \* the file at binary_path
  marker,      \* the file at version_file
  proc,        \* per wrapper process: position in main() and its locals
  prev,        \* history: summary of the last finished invocation
  lastFetched, \* history: __version__ of the last download that ran to line 97
  nInv         \* history: number of invocations started

vars == <<host, dirExists, binary, marker, proc, prev, lastFetched, nInv>>

fsVars == <<dirExists, binary, marker>>

IdleProc ==
  [pc          |-> "idle",
   version     |-> <<>>,     \* __version__
   argv        |-> <<>>,     \* sys.argv
   platform    |-> None,     \* (platform_str, binary_name)
   binary_path |-> None,     \* value returned by download_binary
   urls        |-> <<>>,     \* URLs handed to urlretrieve
   child       |-> <<>>,     \* command lines of child processes launched
   reported    |-> None,     \* what the child reported when it ended
   ret         |-> None,     \* value returned by main
   exc         |-> None,     \* exception raised in main (caught or not)
   stderr      |-> <<>>,     \* what was printed to sys.stderr
   clobbered   |-> FALSE,    \* another transfer truncated the file under ours
   atCall      |-> None,     \* history: cache contents when main was entered
   overlap     |-> {}]       \* history: what it did during another's transfer:
                             \* "check", "hit" (the cache-hit return), "child"
                             \* (the call of subprocess.run)

(***************************************************************************)
(* download_binary                                                         *)
(***************************************************************************)
\* An exception that main() does not catch leaves main without a value.
Propagate(pr, e) == [pr EXCEPT !.pc = "done", !.exc = Some(e)]

\* Faulty variant: `except RuntimeError`, so an OSError escapes main.
ExceptReturn1_mutant_runtime_error_only(pr, e) ==
  IF e.kind = "RuntimeError"
    THEN [pr EXCEPT !.pc = "done", !.exc = Some(e), !.ret = Some(1),
                    !.stderr = Append(@, <<"Error: ", e>>)]
    ELSE Propagate(pr, e)

\* main(): `except Exception as e: print(f"Error: {e}", ...); return 1`
ExceptReturn1(pr, e) ==
  [pr EXCEPT !.pc = "done", !.exc = Some(e), !.ret = Some(1),
             !.stderr = Append(@, <<"Error: ", e>>)]

\* f"{GITHUB_RELEASE_URL}/v{__version__}/gcop-rs-v{__version__}-{platform_str}"
AssetUrl(ver, platform_str) ==
  GITHUB_RELEASE_URL \o <<"/","v">> \o ver
    \o <<"/","g","c","o","p","-","r","s","-","v">> \o ver \o <<"-">> \o platform_str

\* bin_dir / binary_name
BinaryPath(h, binary_name) == [dir |-> get_binary_path(h), name |-> binary_name]

\* Faulty variant: the marker text is compared without .strip().
CacheHit_mutant_no_strip(b, m, ver) == b.exists /\ m.exists /\ m.text = ver

\* Faulty variant: the marker's content is not compared at all.
CacheHit_mutant_any_version(b, m, ver) == b.exists /\ m.exists

\* Faulty variant: only the binary's existence is checked.
CacheHit_mutant_binary_only(b, m, ver) == b.exists

\* `binary_path.exists() and version_file.exists()` and
\* `version_file.read_text().strip() == __version__`
CacheHit(b, m, ver) == b.exists /\ m.exists /\ strip(m.text) = ver

Transferring(q) == proc[q].pc = "transferring"

BeingWritten(p) == \E q \in Procs \ {p} : Transferring(q)

\* main() is entered: a wrapper process starts with its __version__ and
\* its sys.argv.
Start(p, ver, args) ==
  /\ proc[p].pc = "idle"
  /\ proc' = [proc EXCEPT ![p] =
       [IdleProc EXCEPT !.pc = "get_binary_name", !.version = ver, !.argv = args,
          !.atCall = Some([dirExists |-> dirExists, binary |-> binary,
                           marker |-> marker])]]
  /\ nInv' = nInv + 1
  /\ UNCHANGED <<host, fsVars, prev, lastFetched>>

\* platform_str, binary_name = get_binary_name()
GetBinaryName(p) ==
  /\ proc[p].pc = "get_binary_name"
  /\ LET r == get_binary_name(host.system, host.machine)
     IN  proc' = [proc EXCEPT ![p] =
           IF r.ok THEN [@ EXCEPT !.pc = "mkdir", !.platform = Some(r.value)]
                   ELSE ExceptReturn1(@, r)]
  /\ UNCHANGED <<host, fsVars, prev, lastFetched, nInv>>

\* bin_dir = get_binary_path(); bin_dir.mkdir(parents=True, exist_ok=True)
Mkdir(p) ==
  /\ proc[p].pc = "mkdir"
  /\ \/ /\ dirExists' = TRUE
        /\ proc' = [proc EXCEPT ![p].pc = "check"]
     \/ /\ ~dirExists
        /\ dirExists' = dirExists
        /\ proc' = [proc EXCEPT ![p] =
             ExceptReturn1(@, Raised("OSError", "mkdir", get_binary_path(host)))]
  /\ UNCHANGED <<host, binary, marker, prev, lastFetched, nInv>>

\* The cache check; on a miss the URL is built and the notice printed.
Check(p) ==
  /\ proc[p].pc = "check"
  /\ LET me == proc[p]
         pl == me.platform[1]
     IN  proc' = [proc EXCEPT ![p] =
           IF CacheHit(binary, marker, me.version)
             THEN [@ EXCEPT !.pc = "run",
                      !.binary_path = Some(BinaryPath(host, pl.binary_name)),
                      !.overlap = IF BeingWritten(p) THEN @ \cup {"check", "hit"}
                                                     ELSE @]
             ELSE [@ EXCEPT !.pc = "urlretrieve",
                      !.overlap = IF BeingWritten(p) THEN @ \cup {"check"} ELSE @,
                      !.stderr = Append(@, <<"Downloading gcop-rs v", me.version,
                                             " for ", pl.platform_str>>)]]
  /\ UNCHANGED <<host, fsVars, prev, lastFetched, nInv>>

\* urllib.request.urlretrieve(url, binary_path), first half: the request is
\* made and the target is opened with open(filename, 'wb'), which truncates
\* it; or the request (or the open) fails and the target is not touched.
UrlRetrieveOpen(p) ==
  /\ proc[p].pc = "urlretrieve"
  /\ LET me  == proc[p]
         url == AssetUrl(me.version, me.platform[1].platform_str)
     IN  \/ /\ binary' = BinaryFile(me.version, FALSE,
                           IF binary.exists THEN binary.mode ELSE NEW_FILE_MODE)
            /\ proc' = [q \in Procs |->
                 IF q = p
                   THEN [me EXCEPT !.pc = "transferring", !.urls = Append(@, url),
                                   !.clobbered = FALSE]
                 ELSE IF Transferring(q) THEN [proc[q] EXCEPT !.clobbered = TRUE]
                 ELSE proc[q]]
         \/ /\ binary' = binary
            /\ proc' = [proc EXCEPT ![p] =
                 ExceptReturn1([@ EXCEPT !.urls = Append(@, url)],
                   Raised("RuntimeError", "Failed to download binary from", url))]
  /\ UNCHANGED <<host, dirExists, marker, prev, lastFetched, nInv>>

\* urlretrieve, second half: the blocks are copied and the file closed; or
\* the transfer breaks off (connection lost, ContentTooShortError) and the
\* partly written file stays.
UrlRetrieveCopy(p) ==
  /\ proc[p].pc = "transferring"
  /\ LET me  == proc[p]
         url == AssetUrl(me.version, me.platform[1].platform_str)
     IN  \/ /\ binary' = IF me.clobbered THEN binary
                                         ELSE [binary EXCEPT !.complete = TRUE]
            /\ proc' = [proc EXCEPT ![p].pc = "chmod"]
         \/ /\ binary' = binary
            /\ proc' = [proc EXCEPT ![p] =
                 ExceptReturn1(@,
                   Raised("RuntimeError", "Failed to download binary from", url))]
  /\ UNCHANGED <<host, dirExists, marker, prev, lastFetched, nInv>>

\* if platform.system() != "Windows": binary_path.chmod(st_mode | S_IX...)
Chmod(p) ==
  /\ proc[p].pc = "chmod"
  /\ \/ /\ host.system = S_Windows
        /\ binary' = binary
        /\ proc' = [proc EXCEPT ![p].pc = "write_text"]
     \/ /\ host.system # S_Windows
        /\ binary' = [binary EXCEPT !.mode = @ \cup XBITS]
        /\ proc' = [proc EXCEPT ![p].pc = "write_text"]
     \/ /\ host.system # S_Windows
        /\ binary' = binary
        /\ proc' = [proc EXCEPT ![p] =
             ExceptReturn1(@, Raised("OSError", "chmod", <<>>))]
  /\ UNCHANGED <<host, dirExists, marker, prev, lastFetched, nInv>>

\* Faulty variant: write_text(f"v{__version__}").
MarkerText_mutant_v_prefix(ver) == <<"v">> \o ver

\* The text handed to version_file.write_text
MarkerText(ver) == ver

\* What a failed version_file.write_text(data) leaves: the file as it was
\* (the open failed) or, once open(mode='w') has truncated it, a strict
\* prefix of the data (the write or the flush failed).
WriteTextFailure(old, data) ==
  {old} \cup {MarkerFile(SubSeq(data, 1, k)) : k \in 0..(Len(data) - 1)}

\* version_file.write_text(__version__); print(...); return binary_path
WriteText(p) ==
  /\ proc[p].pc = "write_text"
  /\ LET me == proc[p]
         bp == BinaryPath(host, me.platform[1].binary_name)
     IN  \/ /\ marker' = MarkerFile(MarkerText(me.version))
            /\ lastFetched' = Some(me.version)
            /\ proc' = [proc EXCEPT ![p] =
                 [@ EXCEPT !.pc = "run", !.binary_path = Some(bp),
                           !.stderr = Append(@, <<"Downloaded to ", bp>>)]]
         \/ /\ marker' \in WriteTextFailure(marker, MarkerText(me.version))
            /\ lastFetched' = lastFetched
            /\ proc' = [proc EXCEPT ![p] =
                 ExceptReturn1(@, Raised("OSError", "write_text", <<>>))]
  /\ UNCHANGED <<host, dirExists, binary, prev, nInv>>

(***************************************************************************)
(* main: running the binary                                                *)
(***************************************************************************)
\* The file can be executed at all: it exists and, except on Windows, its
\* owner may execute it.
Executable(b) == b.exists /\ (host.system = S_Windows \/ "S_IXUSR" \in b.mode)

\* [str(binary_path)] + sys.argv[1:]
CommandLine(pr) == <<pr.binary_path[1]>> \o SubSeq(pr.argv, 2, Len(pr.argv))

\* subprocess.run(...) launches the child: the file is executable.  (A
\* truncated file may still be loaded, and then dies on its own.)
RunLaunch(p) ==
  /\ proc[p].pc = "run"
  /\ Executable(binary)
  /\ proc' = [proc EXCEPT ![p] =
       [@ EXCEPT !.pc = "child", !.child = Append(@, CommandLine(proc[p])),
                 !.overlap = IF BeingWritten(p) THEN @ \cup {"child"} ELSE @]]
  /\ UNCHANGED <<host, fsVars, prev, lastFetched, nInv>>

\* subprocess.run(...) raises OSError (ENOENT, EACCES, ENOEXEC, ETXTBSY): the
\* file is missing, not executable, not a whole executable, or open for
\* writing.  main() catches only KeyboardInterrupt here.
RunLaunchFails(p) ==
  /\ proc[p].pc = "run"
  /\ ~(Executable(binary) /\ binary.complete) \/ BeingWritten(p)
  /\ proc' = [proc EXCEPT ![p] =
       Propagate([@ EXCEPT !.overlap = IF BeingWritten(p) THEN @ \cup {"child"}
                                                          ELSE @],
                 Raised("OSError", "subprocess.run", <<>>))]
  /\ UNCHANGED <<host, fsVars, prev, lastFetched, nInv>>

\* What result.returncode can be: an exit code, or -N for death by signal N.
ReturnCodes == {0, 1, 7, 130, -9}

\* return result.returncode
ChildExits(p, code) ==
  /\ proc[p].pc = "child"
  /\ proc' = [proc EXCEPT ![p] =
       [@ EXCEPT !.pc = "done", !.reported = Some(code), !.ret = Some(code)]]
  /\ UNCHANGED <<host, fsVars, prev, lastFetched, nInv>>

\* Faulty variant: the child's code, when it reported one, is passed on.
KeyboardInterruptReturn_mutant_passthrough(reported) ==
  IF reported # None THEN reported[1] ELSE 130

\* What main returns from `except KeyboardInterrupt`, whatever the child
\* reported (None: it was not launched yet, or reported nothing).
KeyboardInterruptReturn(reported) == 130

\* The operator interrupts the run: subprocess.run raises KeyboardInterrupt.
KeyboardInterrupt(p, reported) ==
  /\ proc[p].pc \in {"run", "child"}
  /\ proc[p].pc = "run" => reported = None
  /\ proc' = [proc EXCEPT ![p] =
       [@ EXCEPT !.pc = "done", !.reported = reported,
                 !.ret = Some(KeyboardInterruptReturn(reported)),
                 !.exc = Some(Raised("KeyboardInterrupt", proc[p].pc, <<>>))]]
  /\ UNCHANGED <<host, fsVars, prev, lastFetched, nInv>>

\* The process is gone; what it did is kept for the next invocation's checks.
Exit(p) ==
  /\ proc[p].pc = "done"
  /\ prev' = Some([version     |-> proc[p].version,
                   binary_path |-> proc[p].binary_path,
                   urls        |-> proc[p].urls,
                   emptyAtCall |-> ~proc[p].atCall[1].binary.exists
                                   /\ ~proc[p].atCall[1].marker.exists])
  /\ proc' = [proc EXCEPT ![p] = IdleProc]
  /\ UNCHANGED <<host, fsVars, lastFetched, nInv>>

\* One step of process p inside main().
Step(p) ==
  \/ GetBinaryName(p)
  \/ Mkdir(p)
  \/ Check(p)
  \/ UrlRetrieveOpen(p)
  \/ UrlRetrieveCopy(p)
  \/ Chmod(p)
  \/ WriteText(p)
  \/ RunLaunch(p)
  \/ RunLaunchFails(p)
  \/ \E code \in ReturnCodes : ChildExits(p, code)
  \/ \E reported \in {None} \cup {Some(code) : code \in ReturnCodes} :
       KeyboardInterrupt(p, reported)

(***************************************************************************)
(* Specifications                                                          *)
(***************************************************************************)
MaxInvocations == 3

\* sys.argv of an invocation
Argvs == { <<"gcop-rs">>, <<"gcop-rs", "commit", "-m", "commit">> }

InitBinaries ==
  {NoBinary} \cup
  {BinaryFile(v, c, m) : v \in Versions, c \in BOOLEAN,
                         m \in {NEW_FILE_MODE, NEW_FILE_MODE \cup XBITS}}

InitMarkers ==
  {NoMarker, MarkerFile(<<>>)} \cup
  UNION {{MarkerFile(v), MarkerFile(v \o <<"\n">>),
          MarkerFile(<<" ", "\t">> \o v \o <<"\r", "\n">>),
          MarkerFile(<<"v">> \o v)} : v \in Versions}

InitProcs ==
  /\ proc = [p \in Procs |-> IdleProc]
  /\ prev = None
  /\ lastFetched = None
  /\ nInv = 0

\* No cache yet.
InitFresh ==
  /\ host \in Hosts
  /\ dirExists = FALSE
  /\ binary = NoBinary
  /\ marker = NoMarker
  /\ InitProcs

\* Any cache contents (left by earlier runs, other releases, the user).
\* There is a binary_path only on a supported host.
Init ==
  /\ host \in Hosts
  /\ dirExists \in BOOLEAN
  /\ binary \in InitBinaries
  /\ marker \in InitMarkers
  /\ (~dirExists \/ ~Supported(host)) => (binary = NoBinary /\ marker = NoMarker)
  /\ ~Supported(host) => ~dirExists
  /\ InitProcs

\* Invocations one after another, each with the __version__ of the release
\* that is installed at the time.
Next ==
  \/ /\ nInv < MaxInvocations
     /\ \E ver \in Versions, args \in Argvs : Start(1, ver, args)
  \/ Step(1)
  \/ Exit(1)

Spec == Init /\ [][Next]_vars

SpecFresh == InitFresh /\ [][Next]_vars

\* Two wrapper processes of the release at hand, each invoked once,
\* interleaved step by step.
NextRace ==
  \E p \in Procs :
    \/ Start(p, VERSION_0_4_2, <<"gcop-rs">>)
    \/ Step(p)

SpecRace == InitFresh /\ [][NextRace]_vars

(***************************************************************************)
(* Platform resolution alone: the first statement of download_binary on    *)
(* hosts that report these platform.system() / platform.machine() strings. *)
(***************************************************************************)
PlatformSystems ==
  { <<"D","a","r","w","i","n">>,
    <<"d","a","r","w","i","n">>,
    <<"D","A","R","W","I","N">>,
    <<"L","i","n","u","x">>,
    <<"L","I","N","U","X">>,
    <<"W","i","n","d","o","w","s">>,
    <<"W","I","N","D","O","W","S">>,
    <<"F","r","e","e","B","S","D">>,
    <<"J","a","v","a">>,
    <<"S","u","n","O","S">>,
    <<"m","a","c","o","s">>,
    <<>> }

PlatformMachines ==
  { <<"x","8","6","_","6","4">>,
    <<"X","8","6","_","6","4">>,
    <<"A","M","D","6","4">>,
    <<"a","m","d","6","4">>,
    <<"a","r","m","6","4">>,
    <<"A","R","M","6","4">>,
    <<"a","a","r","c","h","6","4">>,
    <<"A","A","r","c","h","6","4">>,
    <<"i","3","8","6">>,
    <<"a","r","m","v","7","l">>,
    <<"r","i","s","c","v","6","4">>,
    <<"x","8","6","-","6","4">>,
    <<"a","r","m">>,
    <<>> }

InitPlatform ==
  /\ host \in {Host(s, m, <<"home", "u">>, None, None) :
                 s \in PlatformSystems, m \in PlatformMachines}
  /\ dirExists = FALSE
  /\ binary = NoBinary
  /\ marker = NoMarker
  /\ InitProcs

NextPlatform ==
  \/ Start(1, VERSION_0_4_2, <<"gcop-rs">>)
  \/ GetBinaryName(1)

SpecPlatform == InitPlatform /\ [][NextPlatform]_vars

(***************************************************************************)
(* C1                                                                      *)
(***************************************************************************)
\* Two texts are equal up to the case of their ASCII letters.
EqIgnoreCase(a, b) ==
  /\ Len(a) = Len(b)
  /\ \A i \in 1..Len(a) :
       \/ a[i] = b[i]
       \/ \E k \in DOMAIN ASCII_UPPER :
            {a[i], b[i]} = {ASCII_UPPER[k], ASCII_LOWER[k]}

\* The specified mapping, written out: the architecture a machine string
\* normalizes to ("" for none) ...
SpecArch(m) ==
  IF EqIgnoreCase(m, <<"x","8","6","_","6","4">>) \/ EqIgnoreCase(m, <<"a","m","d","6","4">>)
    THEN "amd64"
  ELSE IF EqIgnoreCase(m, <<"a","r","m","6","4">>) \/ EqIgnoreCase(m, <<"a","a","r","c","h","6","4">>)
    THEN "arm64"
  ELSE ""

\* ... the operating system a system string names ("" for none) ...
SpecOs(s) ==
  IF EqIgnoreCase(s, <<"d","a","r","w","i","n">>) THEN "darwin"
  ELSE IF EqIgnoreCase(s, <<"l","i","n","u","x">>) THEN "linux"
  ELSE IF EqIgnoreCase(s, <<"w","i","n","d","o","w","s">>) THEN "windows"
  ELSE ""

\* ... and the (suffix, filename) of each recognized pair.
SpecAsset(os, arch) ==
  CASE os = "darwin"  /\ arch = "amd64" -> <<<<"m","a","c","o","s","-","a","m","d","6","4">>, <<"g","c","o","p","-","r","s">>>>
    [] os = "darwin"  /\ arch = "arm64" -> <<<<"m","a","c","o","s","-","a","r","m","6","4">>, <<"g","c","o","p","-","r","s">>>>
    [] os = "linux"   /\ arch = "amd64" -> <<<<"l","i","n","u","x","-","a","m","d","6","4">>, <<"g","c","o","p","-","r","s">>>>
    [] os = "linux"   /\ arch = "arm64" -> <<<<"l","i","n","u","x","-","a","r","m","6","4">>, <<"g","c","o","p","-","r","s">>>>
    [] os = "windows" /\ arch = "amd64" -> <<<<"w","i","n","d","o","w","s","-","a","m","d","6","4",".","e","x","e">>, <<"g","c","o","p","-","r","s",".","e","x","e">>>>
    [] os = "windows" /\ arch = "arm64" -> <<<<"w","i","n","d","o","w","s","-","a","a","r","c","h","6","4",".","e","x","e">>, <<"g","c","o","p","-","r","s",".","e","x","e">>>>

\* The process has made its call of get_binary_name.
Resolved(pr) == pr.pc \notin {"idle", "get_binary_name"}

\* C1: once get_binary_name has been called on a host, its outcome is the one
\* the mapping specifies for the host's (system, machine), compared without
\* regard to case: the (suffix, filename) of the recognized pair; the
\* unsupported-architecture error for any other machine; the
\* unsupported-operating-system error for any other system with a recognized
\* machine; never a default.  The six recognized pairs give six suffixes.
C1_PlatformMapping ==
  /\ \A p \in Procs : Resolved(proc[p]) =>
       LET pr   == proc[p]
           arch == SpecArch(host.machine)
           os   == SpecOs(host.system)
       IN  IF arch = ""
             THEN /\ pr.platform = None
                  /\ pr.exc # None
                  /\ pr.exc[1].kind = "RuntimeError"
                  /\ pr.exc[1].what = "Unsupported architecture"
                  /\ EqIgnoreCase(pr.exc[1].arg, host.machine)
           ELSE IF os = ""
             THEN /\ pr.platform = None
                  /\ pr.exc # None
                  /\ pr.exc[1].kind = "RuntimeError"
                  /\ pr.exc[1].what = "Unsupported operating system"
                  /\ EqIgnoreCase(pr.exc[1].arg, host.system)
           ELSE /\ pr.exc = None
                /\ pr.platform # None
                /\ <<pr.platform[1].platform_str, pr.platform[1].binary_name>>
                     = SpecAsset(os, arch)
  /\ Cardinality({get_binary_name(s, m).value.platform_str :
                    s \in {S_darwin, S_linux, S_windows},
                    m \in {S_amd64, S_arm64}}) = 6

\* The spec's scenario: architecture "aarch64", OS "Darwin" has resolved to
\* ("macos-arm64", "gcop-rs").
C1_Witness ==
  /\ host.system = S_Darwin
  /\ host.machine = S_aarch64
  /\ Resolved(proc[1])
  /\ proc[1].platform = Some([platform_str |-> <<"m","a","c","o","s","-","a","r","m","6","4">>,
                              binary_name  |-> S_gcop_rs])

(***************************************************************************)
(* Vocabulary of the claims about download_binary and main                 *)
(***************************************************************************)
\* Text t is v with whitespace around it (v itself has none at its ends).
TrimsTo(t, v) ==
  \E a \in 0..Len(t), b \in 0..Len(t) :
    /\ a <= b
    /\ SubSeq(t, a + 1, b) = v
    /\ \A k \in 1..a : t[k] \in WHITESPACE
    /\ \A k \in (b + 1)..Len(t) : t[k] \in WHITESPACE

\* The cache the invocation found when it was started.
AtCall(pr) == pr.atCall[1]

\* The cache-hit condition held when the invocation was started.
HitAtCall(pr) ==
  /\ AtCall(pr).binary.exists
  /\ AtCall(pr).marker.exists
  /\ TrimsTo(AtCall(pr).marker.text, pr.version)

Downloading == {"urlretrieve", "transferring", "chmod", "write_text"}

FetchErrors ==
  {"Unsupported architecture", "Unsupported operating system", "mkdir",
   "Failed to download binary from", "chmod", "write_text"}

FetchFailed(pr) == pr.exc # None /\ pr.exc[1].what \in FetchErrors

Interrupted(pr) == pr.exc # None /\ pr.exc[1].kind = "KeyboardInterrupt"

\* The path of the cached binary on host h, per the specified file name.
SpecPath(h) ==
  [dir |-> get_binary_path(h),
   name |-> SpecAsset(SpecOs(h.system), SpecArch(h.machine))[2]]

\* {releaseBaseURL}/v{version}/gcop-rs-v{version}-{platformSuffix}
SpecUrl(h, ver) ==
  GITHUB_RELEASE_URL \o <<"/","v">> \o ver \o <<"/","g","c","o","p","-","r","s","-","v">> \o ver
    \o <<"-">> \o SpecAsset(SpecOs(h.system), SpecArch(h.machine))[1]

\* The invocation has evaluated the cache check.
PastCheck(pr) ==
  /\ pr.pc \notin {"idle", "get_binary_name", "mkdir", "check"}
  /\ pr.platform # None
  /\ ~(pr.exc # None /\ pr.exc[1].what = "mkdir")

\* Its transfer has run to the end.
TransferDone(pr) ==
  \/ pr.pc \in {"chmod", "write_text", "run", "child"}
  \/ pr.pc = "done" /\ ~(pr.exc # None
                         /\ pr.exc[1].what = "Failed to download binary from")

(***************************************************************************)
(* C2                                                                      *)
(***************************************************************************)
\* C2: an invocation started on a cache whose binary exists and whose marker
\* trims to the expected version makes no transfer, never enters the
\* download, fails with no fetch error, leaves binary (content and mode) and
\* marker as they were, and download_binary returns the binary path.
C2_CacheHitFrame ==
  \A p \in Procs :
    LET pr == proc[p]
    IN  (pr.pc # "idle" /\ HitAtCall(pr)) =>
          /\ pr.urls = <<>>
          /\ pr.pc \notin Downloading
          /\ ~FetchFailed(pr)
          /\ binary = AtCall(pr).binary
          /\ marker = AtCall(pr).marker
          /\ pr.pc \in {"run", "child", "done"} =>
               pr.binary_path = Some(SpecPath(host))

\* A cache hit on a marker that needed trimming has returned.
C2_Witness ==
  \E p \in Procs :
    /\ proc[p].pc = "run"
    /\ HitAtCall(proc[p])
    /\ AtCall(proc[p]).marker.text # proc[p].version
    /\ proc[p].binary_path # None

(***************************************************************************)
(* C3                                                                      *)
(***************************************************************************)
\* C3: when the previous invocation's download_binary returned and the
\* present one expects the same version, the previous one made at most one
\* transfer (exactly one from an empty cache) and the present one makes none:
\* it never enters the download, does not fail, and returns the same path.
C3_Idempotent ==
  (prev # None /\ prev[1].binary_path # None) =>
    /\ Len(prev[1].urls) <= 1
    /\ prev[1].emptyAtCall => Len(prev[1].urls) = 1
    /\ \A p \in Procs :
         LET pr == proc[p]
         IN  (pr.pc # "idle" /\ pr.version = prev[1].version) =>
               /\ pr.urls = <<>>
               /\ pr.pc \notin Downloading
               /\ ~FetchFailed(pr)
               /\ pr.pc \in {"run", "child", "done"} =>
                    pr.binary_path = prev[1].binary_path

\* The second of two calls, the first from an empty cache with one transfer,
\* has returned on the cache-hit path.
C3_Witness ==
  /\ prev # None
  /\ prev[1].binary_path # None
  /\ prev[1].emptyAtCall
  /\ Len(prev[1].urls) = 1
  /\ proc[1].pc = "run"
  /\ proc[1].version = prev[1].version
  /\ proc[1].urls = <<>>
  /\ proc[1].binary_path = prev[1].binary_path

(***************************************************************************)
(* C4                                                                      *)
(***************************************************************************)
\* C4: an invocation whose cache check was evaluated on a cache where the
\* hit condition did not hold asks for exactly one transfer, of the URL built
\* from the expected version and the platform suffix (none yet while it
\* stands before urlretrieve); once the transfer has run to the end the
\* binary is the whole asset of the expected version, whatever was there;
\* once download_binary has returned the marker holds the expected version.
C4_RefetchOnMiss ==
  \A p \in Procs :
    LET pr == proc[p]
    IN  (PastCheck(pr) /\ ~HitAtCall(pr)) =>
          /\ pr.urls = IF pr.pc = "urlretrieve" THEN <<>>
                                                ELSE <<SpecUrl(host, pr.version)>>
          /\ TransferDone(pr) =>
               /\ binary.exists
               /\ binary.complete
               /\ binary.ver = pr.version
          /\ pr.binary_path # None => marker = MarkerFile(pr.version)

\* A version bump: the cache held the whole binary and the marker of another
\* version; the invocation has transferred its own and written the marker.
C4_Witness ==
  \E p \in Procs :
    LET pr == proc[p]
    IN  /\ pr.pc = "run"
        /\ AtCall(pr).binary.exists
        /\ AtCall(pr).binary.complete
        /\ AtCall(pr).marker.exists
        /\ AtCall(pr).marker.text \in Versions \ {pr.version}
        /\ Len(pr.urls) = 1
        /\ binary.ver = pr.version
        /\ binary.ver # AtCall(pr).binary.ver
        /\ marker.text = pr.version

(***************************************************************************)
(* C5                                                                      *)
(***************************************************************************)
\* C5: whenever main has ended after download_binary returned and without an
\* operator interrupt, the child was started exactly once, with the binary
\* path followed by the wrapper's arguments after the program name, and main
\* returned the code the child reported.
C5_ExitCodePassthrough ==
  \A p \in Procs :
    LET pr == proc[p]
    IN  (pr.pc = "done" /\ pr.binary_path # None /\ ~Interrupted(pr)) =>
          /\ pr.child = << <<pr.binary_path[1]>> \o SubSeq(pr.argv, 2, Len(pr.argv)) >>
          /\ pr.reported # None
          /\ pr.ret = pr.reported

(***************************************************************************)
(* C6                                                                      *)
(***************************************************************************)
\* C6: an invocation in which a fetch error was raised has ended with main
\* returning 1, the error printed last on stderr, and no child started; and
\* an invocation that ended without download_binary returning is such a one.
\* A child is started only after download_binary returned.
C6_FetchErrorsExit1 ==
  \A p \in Procs :
    LET pr == proc[p]
    IN  /\ FetchFailed(pr) =>
             /\ pr.pc = "done"
             /\ pr.ret = Some(1)
             /\ pr.child = <<>>
             /\ pr.stderr # <<>>
             /\ pr.stderr[Len(pr.stderr)] = <<"Error: ", pr.exc[1]>>
        /\ (pr.pc = "done" /\ pr.binary_path = None) => FetchFailed(pr)
        /\ pr.child # <<>> => pr.binary_path # None

\* The last step of the fetch, the marker write, has failed after the
\* transfer and the chmod were done.
C6_Witness ==
  \E p \in Procs :
    /\ proc[p].exc # None
    /\ proc[p].exc[1].what = "write_text"
    /\ binary.complete
    /\ proc[p].ret = Some(1)
    /\ proc[p].child = <<>>

(***************************************************************************)
(* C7                                                                      *)
(***************************************************************************)
\* C7: an invocation whose run of the child was interrupted by the operator
\* has ended with main returning 130, whatever the child reported.
C7_Interrupt130 ==
  \A p \in Procs :
    Interrupted(proc[p]) => (proc[p].pc = "done" /\ proc[p].ret = Some(130))

\* The child was running, reported 0, and the interrupt made main return 130.
C7_Witness ==
  \E p \in Procs :
    /\ Interrupted(proc[p])
    /\ proc[p].exc[1].what = "child"
    /\ proc[p].child # <<>>
    /\ proc[p].reported = Some(0)
    /\ proc[p].ret = Some(130)

(***************************************************************************)
(* C8                                                                      *)
(***************************************************************************)
\* C8: the version marker, when present, holds exactly the version of the
\* last download that ran to its end.
C8_MarkerIsLastFetched ==
  marker.exists => (lastFetched # None /\ marker.text = lastFetched[1])

(***************************************************************************)
(* C9                                                                      *)
(***************************************************************************)
\* C9: whenever the marker trims to the version an invocation expects and the
\* binary exists as that invocation checks the cache, and whenever an
\* invocation is about to run or is running the child, the binary is the
\* whole asset of the version it expects.
C9_HitUsesWholeAsset ==
  \A p \in Procs :
    LET pr == proc[p]
    IN  \/ pr.pc \in {"run", "child"}
        \/ (pr.pc = "check" /\ binary.exists /\ marker.exists
              /\ TrimsTo(marker.text, pr.version))
        => (binary.exists /\ binary.complete /\ binary.ver = pr.version)

====
